---- MODULE Spec2Model ----
(***************************************************************************)
(* The index drivers of jina/drivers/index.py: VectorIndexDriver,          *)
(* KVIndexDriver and IncrementIndexDriver, each applied to the batch of    *)
(* documents the pipeline hands to _apply_all, each bound to one executor  *)
(* function (exec_fn).                                                     *)
(***************************************************************************)
EXTENDS Integers, Sequences, FiniteSets

\* Longest batch the runtime hands to a driver.
MaxBatch == 2

\* Width, in bits, of a storage key.
KeyBits == 4

\* Document ids: strings of hexadecimal digits, written as digit sequences.
Ids == {<<1>>, <<1, 2>>}

\* An absent embedding (an empty buffer).
NoEmbedding == <<>>

\* Embedding vectors; the last one has another dimensionality.
Embeddings == {<<1, 2>>, <<3, 4>>, <<5>>}

Document == [id : Ids, indexed : BOOLEAN, embedding : Embeddings \cup {NoEmbedding}]

WriteDrivers == {"VectorIndexDriver", "KVIndexDriver"}

\* Results an executor bound to IncrementIndexDriver may return: any
\* sequence of booleans, up to one longer than the longest batch.
BoolSeqs == UNION {[1..n -> BOOLEAN] : n \in 0..(MaxBatch + 1)}

VARIABLES
    docs,        \* the batch: the documents handed to _apply_all, in order
    op,          \* the driver whose _apply_all ran last on the batch, or "none"
    calls,       \* the exec_fn calls that _apply_all made, in order
    warnings,    \* the logger.warning calls that _apply_all made, in order
    outcome,     \* "returned" or "raised": how that _apply_all ended
    is_indexed,  \* what exec_fn returned to IncrementIndexDriver
    lastSent,    \* ids of the documents that _apply_all passed to exec_fn
    sent         \* per write driver: ids passed to its executor by earlier calls

vars == <<docs, op, calls, warnings, outcome, is_indexed, lastSent, sent>>

----------------------------------------------------------------------------
\* Helpers

Range(s) == {s[i] : i \in 1..Len(s)}

RECURSIVE hexvalue(_)
hexvalue(s) == IF s = <<>> THEN 0 ELSE 16 * hexvalue(SubSeq(s, 1, Len(s) - 1)) + s[Len(s)]

\* uid.id2hash: the fixed-width integer key of an id.
id2hash(id) == hexvalue(id) % (2 ^ KeyBits)

\* doc.SerializeToString(): the encoding of the document's full field set.
SerializeToString(doc) == <<doc.id, doc.indexed, doc.embedding>>

\* [doc.id for doc in ds]
ids_of(ds) == [i \in 1..Len(ds) |-> ds[i].id]

\* [uid.id2hash(doc.id) for doc in ds]
keys_of(ds) == [i \in 1..Len(ds) |-> id2hash(ds[i].id)]

\* The embeddings of documents that have one, in order.
embeddings_of(ds) == [i \in 1..Len(ds) |-> ds[i].embedding]

\* helper.extract_docs(docs, embedding=True): the embeddings, the documents
\* they come from, and the ids of the documents that have none.
extract_docs(ds) ==
    LET good == SelectSeq(ds, LAMBDA doc : doc.embedding # NoEmbedding)
        bad == SelectSeq(ds, LAMBDA doc : doc.embedding = NoEmbedding)
    IN [embed_vecs |-> embeddings_of(good),
        docs_pts |-> good,
        bad_doc_ids |-> ids_of(bad)]

\* np.stack(arrays): needs arrays of one shape, and raises ValueError otherwise.
np_stack_raises(arrays) == \E i, j \in 1..Len(arrays) : Len(arrays[i]) # Len(arrays[j])

----------------------------------------------------------------------------
\* The drivers. Each _apply_all is an operator from the batch (and, for the
\* increment driver, what exec_fn returns) to what the call leaves behind:
\* the batch, the exec_fn calls, the warnings, how it ended, and the ids of
\* the documents whose data went into an exec_fn call.

Effect(ds, cs, ws, out, ids) ==
    [docs |-> ds, calls |-> cs, warnings |-> ws, outcome |-> out, sent |-> ids]

ExecCall(driver, args) == [driver |-> driver, args |-> args]

----------------------------------------------------------------------------
\* The drivers with one fault each: what the properties below must tell
\* from the drivers as written.

\* VectorIndexDriver without the filter on doc.indexed.
VectorIndexDriver_apply_all_unfiltered(ds) ==
    LET ex == extract_docs(ds)
        warned == IF ex.bad_doc_ids # <<>> THEN <<ex.bad_doc_ids>> ELSE <<>>
        keys == keys_of(ex.docs_pts)
    IN  IF ex.docs_pts # <<>>
        THEN IF np_stack_raises(ex.embed_vecs)
             THEN Effect(ds, <<>>, warned, "raised", <<>>)
             ELSE Effect(ds, <<ExecCall("VectorIndexDriver", <<keys, ex.embed_vecs>>)>>,
                         warned, "returned", ids_of(ex.docs_pts))
        ELSE Effect(ds, <<>>, warned, "returned", <<>>)

\* VectorIndexDriver returning after the warning when there are bad documents.
VectorIndexDriver_apply_all_stops_on_bad(ds) ==
    LET docs_to_index == SelectSeq(ds, LAMBDA doc : ~doc.indexed)
        ex == extract_docs(docs_to_index)
        keys == keys_of(ex.docs_pts)
    IN  IF ex.bad_doc_ids # <<>>
        THEN Effect(ds, <<>>, <<ex.bad_doc_ids>>, "returned", <<>>)
        ELSE IF ex.docs_pts # <<>>
        THEN IF np_stack_raises(ex.embed_vecs)
             THEN Effect(ds, <<>>, <<>>, "raised", <<>>)
             ELSE Effect(ds, <<ExecCall("VectorIndexDriver", <<keys, ex.embed_vecs>>)>>,
                         <<>>, "returned", ids_of(ex.docs_pts))
        ELSE Effect(ds, <<>>, <<>>, "returned", <<>>)

\* VectorIndexDriver calling exec_fn once per document.
VectorIndexDriver_apply_all_per_doc(ds) ==
    LET docs_to_index == SelectSeq(ds, LAMBDA doc : ~doc.indexed)
        ex == extract_docs(docs_to_index)
        warned == IF ex.bad_doc_ids # <<>> THEN <<ex.bad_doc_ids>> ELSE <<>>
    IN  Effect(ds,
               [i \in 1..Len(ex.docs_pts) |->
                   ExecCall("VectorIndexDriver",
                            <<<<id2hash(ex.docs_pts[i].id)>>, <<ex.embed_vecs[i]>>>>)],
               warned, "returned", ids_of(ex.docs_pts))

\* VectorIndexDriver taking the keys from _docs_to_index instead of docs_pts.
VectorIndexDriver_apply_all_keys_of_all(ds) ==
    LET docs_to_index == SelectSeq(ds, LAMBDA doc : ~doc.indexed)
        ex == extract_docs(docs_to_index)
        warned == IF ex.bad_doc_ids # <<>> THEN <<ex.bad_doc_ids>> ELSE <<>>
        keys == keys_of(docs_to_index)
    IN  IF ex.docs_pts # <<>>
        THEN IF np_stack_raises(ex.embed_vecs)
             THEN Effect(ds, <<>>, warned, "raised", <<>>)
             ELSE Effect(ds, <<ExecCall("VectorIndexDriver", <<keys, ex.embed_vecs>>)>>,
                         warned, "returned", ids_of(ex.docs_pts))
        ELSE Effect(ds, <<>>, warned, "returned", <<>>)

\* KVIndexDriver without the `continue` on doc.indexed.
KVIndexDriver_apply_all_no_skip(ds) ==
    Effect(ds,
           <<ExecCall("KVIndexDriver",
                      <<keys_of(ds),
                        [i \in 1..Len(ds) |-> SerializeToString(ds[i])]>>)>>,
           <<>>, "returned", ids_of(ds))

\* KVIndexDriver marking the documents it wrote as indexed.
KVIndexDriver_apply_all_marks(ds) ==
    LET todo == SelectSeq(ds, LAMBDA doc : ~doc.indexed)
    IN  Effect([i \in 1..Len(ds) |-> [ds[i] EXCEPT !.indexed = TRUE]],
               <<ExecCall("KVIndexDriver",
                          <<keys_of(todo),
                            [i \in 1..Len(todo) |-> SerializeToString(todo[i])]>>)>>,
               <<>>, "returned", ids_of(todo))

\* IncrementIndexDriver never clearing a flag that is set.
IncrementIndexDriver_apply_all_sticky(ds, result) ==
    LET n == IF Len(ds) <= Len(result) THEN Len(ds) ELSE Len(result)
    IN  Effect([i \in 1..Len(ds) |->
                  IF i <= n
                  THEN [ds[i] EXCEPT !.indexed = ds[i].indexed \/ result[i]]
                  ELSE ds[i]],
               <<ExecCall("IncrementIndexDriver", <<ids_of(ds)>>)>>,
               <<>>, "returned", <<>>)

\* IncrementIndexDriver asking only about the documents not yet indexed.
IncrementIndexDriver_apply_all_prefiltered(ds, result) ==
    LET todo == SelectSeq(ds, LAMBDA doc : ~doc.indexed)
        n == IF Len(ds) <= Len(result) THEN Len(ds) ELSE Len(result)
    IN  Effect([i \in 1..Len(ds) |->
                  IF i <= n THEN [ds[i] EXCEPT !.indexed = result[i]] ELSE ds[i]],
               <<ExecCall("IncrementIndexDriver", <<ids_of(todo)>>)>>,
               <<>>, "returned", <<>>)

----------------------------------------------------------------------------
\* The drivers as written

VectorIndexDriver_apply_all(ds) ==
    LET docs_to_index == SelectSeq(ds, LAMBDA doc : ~doc.indexed)
        ex == extract_docs(docs_to_index)
        warned == IF ex.bad_doc_ids # <<>> THEN <<ex.bad_doc_ids>> ELSE <<>>
        keys == keys_of(ex.docs_pts)
    IN  IF ex.docs_pts # <<>>
        THEN IF np_stack_raises(ex.embed_vecs)
             THEN Effect(ds, <<>>, warned, "raised", <<>>)
             ELSE Effect(ds, <<ExecCall("VectorIndexDriver", <<keys, ex.embed_vecs>>)>>,
                         warned, "returned", ids_of(ex.docs_pts))
        ELSE Effect(ds, <<>>, warned, "returned", <<>>)

\* The loop of KVIndexDriver._apply_all from document i on: keys and values,
\* and the documents appended so far.
RECURSIVE KV_loop(_, _, _, _, _)
KV_loop(ds, i, keys, values, taken) ==
    IF i > Len(ds) THEN [keys |-> keys, values |-> values, taken |-> taken]
    ELSE IF ds[i].indexed THEN KV_loop(ds, i + 1, keys, values, taken)
    ELSE KV_loop(ds, i + 1, Append(keys, id2hash(ds[i].id)),
                 Append(values, SerializeToString(ds[i])), Append(taken, ds[i].id))

KVIndexDriver_apply_all(ds) ==
    LET r == KV_loop(ds, 1, <<>>, <<>>, <<>>)
    IN  Effect(ds, <<ExecCall("KVIndexDriver", <<r.keys, r.values>>)>>, <<>>,
               "returned", r.taken)

\* zip(docs, _is_indexed) stops at the shorter of the two.
zip_len(ds, result) == IF Len(ds) <= Len(result) THEN Len(ds) ELSE Len(result)

IncrementIndexDriver_apply_all(ds, result) ==
    LET ids == ids_of(ds)
        marked == [i \in 1..Len(ds) |->
                     IF i <= zip_len(ds, result)
                     THEN [ds[i] EXCEPT !.indexed = result[i]]
                     ELSE ds[i]]
    IN  Effect(marked, <<ExecCall("IncrementIndexDriver", <<ids>>)>>, <<>>,
               "returned", <<>>)

----------------------------------------------------------------------------
\* The state machine

Init ==
    /\ docs = <<>>
    /\ op = "none"
    /\ calls = <<>>
    /\ warnings = <<>>
    /\ outcome = "returned"
    /\ is_indexed = <<>>
    /\ lastSent = <<>>
    /\ sent = [d \in WriteDrivers |-> {}]

\* Nothing of a previous _apply_all is left to observe.
Forget ==
    /\ op' = "none"
    /\ calls' = <<>>
    /\ warnings' = <<>>
    /\ outcome' = "returned"
    /\ is_indexed' = <<>>
    /\ lastSent' = <<>>

\* The runtime adds a document to the batch.
Deliver(doc) ==
    /\ Len(docs) < MaxBatch
    /\ docs' = Append(docs, doc)
    /\ Forget

\* The runtime starts a new batch.
NewBatch ==
    /\ docs # <<>>
    /\ docs' = <<>>
    /\ Forget

\* A driver's _apply_all ran on the batch with effect e.
Applied(driver, e) ==
    /\ op' = driver
    /\ docs' = e.docs
    /\ calls' = e.calls
    /\ warnings' = e.warnings
    /\ outcome' = e.outcome
    /\ lastSent' = e.sent

VectorIndex ==
    /\ Applied("VectorIndexDriver", VectorIndexDriver_apply_all(docs))
    /\ is_indexed' = <<>>

KVIndex ==
    /\ Applied("KVIndexDriver", KVIndexDriver_apply_all(docs))
    /\ is_indexed' = <<>>

IncrementIndex(result) ==
    /\ Applied("IncrementIndexDriver", IncrementIndexDriver_apply_all(docs, result))
    /\ is_indexed' = result

\* One batch at a time, whatever came before.
Next ==
    \/ \E doc \in Document : Deliver(doc) /\ UNCHANGED sent
    \/ NewBatch /\ UNCHANGED sent
    \/ VectorIndex /\ UNCHANGED sent
    \/ KVIndex /\ UNCHANGED sent
    \/ \E result \in BoolSeqs : IncrementIndex(result) /\ UNCHANGED sent

Spec == Init /\ [][Next]_vars

\* The ids the last _apply_all passed to its executor join that executor's
\* history as soon as anything else happens.
Remember ==
    sent' = IF op \in WriteDrivers
            THEN [sent EXCEPT ![op] = @ \cup Range(lastSent)]
            ELSE sent

\* The documents of the runs that keep the executors' history.
HistDocument == {doc \in Document : doc.embedding \in {NoEmbedding, <<1, 2>>}}

NextHist ==
    \/ \E doc \in HistDocument : Deliver(doc) /\ Remember
    \/ NewBatch /\ Remember
    \/ VectorIndex /\ Remember
    \/ KVIndex /\ Remember
    \/ \E result \in BoolSeqs : IncrementIndex(result) /\ Remember

SpecHist == Init /\ [][NextHist]_vars

TypeOK ==
    /\ docs \in Seq(Document) /\ Len(docs) <= MaxBatch
    /\ op \in WriteDrivers \cup {"IncrementIndexDriver", "none"}
    /\ outcome \in {"returned", "raised"}
    /\ is_indexed \in BoolSeqs

----------------------------------------------------------------------------
\* What the properties below speak of

Positions == DOMAIN docs

NotIndexed == {i \in Positions : ~docs[i].indexed}

HasEmbedding == {i \in Positions : docs[i].embedding # NoEmbedding}

\* f lists positions of the batch in batch order.
InBatchOrder(f) == \A i, j \in DOMAIN f : i < j => f[i] < f[j]

\* What a write driver passes for a document besides its key.
Payload(driver, doc) ==
    IF driver = "VectorIndexDriver" THEN doc.embedding ELSE SerializeToString(doc)

\* C1: a KVIndexDriver call on a batch with no document of indexed = false
\* (the empty batch, or every document indexed) makes no executor call.
C1_KVNoCallWithoutEligible ==
    (op = "KVIndexDriver" /\ NotIndexed = {}) => calls = <<>>

\* C2: a document that an earlier call of a write driver passed to its
\* executor is never passed to that executor again by a later call.
C2_NeverSentAgain ==
    op \in WriteDrivers => Range(lastSent) \cap sent[op] = {}

\* C2, amended: a document that an earlier call of a write driver passed to
\* its executor is passed to it again by a later call only if the batch of
\* that call holds it with indexed = false.
C2_SentAgainOnlyIfNotIndexed ==
    op \in WriteDrivers =>
        \A id \in Range(lastSent) \cap sent[op] :
            \E i \in Positions : docs[i].id = id /\ ~docs[i].indexed

\* A document sent earlier and now marked indexed was left out of a call
\* that sent another document.
C2_Witness ==
    /\ op \in WriteDrivers
    /\ lastSent # <<>>
    /\ \E i \in Positions :
          /\ docs[i].indexed
          /\ docs[i].id \in sent[op]
          /\ docs[i].id \notin Range(lastSent)

\* C3: when exec_fn returns to IncrementIndexDriver a result whose length is
\* not the batch's, the call ends in an error; it never returns normally.
C3_MismatchedResultIsFatal ==
    (op = "IncrementIndexDriver" /\ Len(is_indexed) # Len(docs)) => outcome = "raised"

\* C4: in a call of a write driver, every key and payload passed to the
\* executor comes from a document of the batch whose indexed flag is false,
\* and no more pairs are passed than there are such documents.
C4_IndexedNeverSent ==
    op \in WriteDrivers =>
        \A c \in Range(calls) :
            /\ Len(c.args[1]) <= Cardinality(NotIndexed)
            /\ \A k \in 1..Len(c.args[1]) :
                  \E i \in NotIndexed :
                      /\ c.args[1][k] = id2hash(docs[i].id)
                      /\ c.args[2][k] = Payload(op, docs[i])

C4_Witness ==
    /\ op \in WriteDrivers
    /\ calls # <<>>
    /\ calls[1].args[1] # <<>>
    /\ \E i \in Positions : docs[i].indexed /\ docs[i].embedding # NoEmbedding

\* C5: a VectorIndexDriver call on a batch of N documents, none indexed, K of
\* them without an embedding: an executor call covers exactly the N-K
\* documents with an embedding, in order; the warning lists exactly the ids
\* of the K others; and with N-K > 0 the call is made unless np.stack
\* rejects the embeddings, which the documents without one cannot cause.
C5_BadDocsIsolated ==
    (op = "VectorIndexDriver" /\ NotIndexed = Positions) =>
        LET good == HasEmbedding
            bad == Positions \ HasEmbedding
            ragged == \E i, j \in good : Len(docs[i].embedding) # Len(docs[j].embedding)
        IN  /\ Len(calls) <= 1
            /\ \A c \in Range(calls) :
                  /\ Len(c.args[1]) = Cardinality(good)
                  /\ Len(c.args[2]) = Cardinality(good)
                  /\ \E f \in [1..Cardinality(good) -> good] :
                        /\ InBatchOrder(f)
                        /\ \A k \in DOMAIN f :
                              /\ c.args[1][k] = id2hash(docs[f[k]].id)
                              /\ c.args[2][k] = docs[f[k]].embedding
            /\ IF bad = {} THEN warnings = <<>>
               ELSE /\ Len(warnings) = 1
                    /\ Len(warnings[1]) = Cardinality(bad)
                    /\ \E f \in [1..Cardinality(bad) -> bad] :
                          /\ InBatchOrder(f)
                          /\ \A k \in DOMAIN f : warnings[1][k] = docs[f[k]].id
            /\ (good # {} /\ ~ragged) => Len(calls) = 1
            /\ outcome = "raised" <=> ragged

\* A document sent after a document without an embedding.
C5_Witness ==
    /\ op = "VectorIndexDriver"
    /\ NotIndexed = Positions
    /\ Len(docs) = 2
    /\ HasEmbedding = {2}
    /\ warnings # <<>>
    /\ calls # <<>>

\* C6: after an IncrementIndexDriver call in which exec_fn returned a result
\* of the batch's length, document i's indexed flag is result[i], for every i.
C6_FlagsAreResult ==
    (op = "IncrementIndexDriver" /\ Len(is_indexed) = Len(docs)) =>
        \A i \in Positions : docs[i].indexed = is_indexed[i]

C6_Witness ==
    /\ op = "IncrementIndexDriver"
    /\ Len(is_indexed) = Len(docs)
    /\ \E i, j \in Positions : is_indexed[i] /\ ~is_indexed[j] /\ ~docs[j].indexed

\* C7: a VectorIndexDriver call makes at most one executor call, and none
\* when no document of the batch is both not indexed and has an embedding.
C7_VectorAtMostOnce ==
    op = "VectorIndexDriver" =>
        /\ Len(calls) <= 1
        /\ (NotIndexed \cap HasEmbedding = {}) => calls = <<>>

C7_Witness ==
    /\ op = "VectorIndexDriver"
    /\ Len(calls) = 1
    /\ Len(calls[1].args[1]) >= 2

\* C8: in every executor call of a write driver the keys and the payloads
\* are equally many and, position by position, the key is id2hash of the id
\* of the document the payload is of, the documents taken in batch order.
C8_KeysAligned ==
    op \in WriteDrivers =>
        \A c \in Range(calls) :
            /\ Len(c.args[1]) = Len(c.args[2])
            /\ \E f \in [1..Len(c.args[1]) -> Positions] :
                  /\ InBatchOrder(f)
                  /\ \A k \in DOMAIN f :
                        /\ c.args[1][k] = id2hash(docs[f[k]].id)
                        /\ c.args[2][k] = Payload(op, docs[f[k]])

\* A call with two different keys and two different payloads.
C8_Witness ==
    /\ op = "VectorIndexDriver"
    /\ calls # <<>>
    /\ Len(calls[1].args[1]) = 2
    /\ calls[1].args[1][1] # calls[1].args[1][2]
    /\ calls[1].args[2][1] # calls[1].args[2][2]

\* C9: an IncrementIndexDriver call makes exactly one executor call, with the
\* ids of all documents of the batch, in batch order.
C9_IncrementSendsAllIds ==
    op = "IncrementIndexDriver" =>
        /\ Len(calls) = 1
        /\ calls[1].args = <<[i \in Positions |-> docs[i].id]>>

C9_Witness ==
    /\ op = "IncrementIndexDriver"
    /\ Len(docs) >= 2
    /\ \E i, j \in Positions : docs[i].id # docs[j].id /\ docs[i].indexed

\* C10: a call of a write driver leaves the id and the indexed flag of every
\* document of the batch as they were.
C10_WriteDriversLeaveFlags ==
    [][op' \in WriteDrivers =>
          /\ Len(docs') = Len(docs)
          /\ \A i \in Positions :
                /\ docs'[i].id = docs[i].id
                /\ docs'[i].indexed = docs[i].indexed]_vars

\* A write driver sent one document and skipped another.
C10_Witness ==
    /\ op \in WriteDrivers
    /\ lastSent # <<>>
    /\ NotIndexed # {}
    /\ NotIndexed # Positions

====
